---------------------------- MODULE Spec2Model ----------------------------
(***************************************************************************)
(* Squarer: the image-squaring command `process_image` of                  *)
(* src-tauri/src/lib.rs, as a state machine.                               *)
(*                                                                         *)
(* One invocation is followed through its stages (pc): the convex-hull     *)
(* validation, the decoding of the payload, the ordering loop with the     *)
(* bounding box, the crop, the projective solve, the warp and the PNG      *)
(* encoding.  Integer code (i32) is modelled over the integers, within     *)
(* coordinate bounds that keep every product far from 2^31.  The f32       *)
(* arithmetic of lib.rs is modelled twice: with IEEE-754 binary32          *)
(* semantics (round to nearest even, signed zeros, infinities, NaN) in     *)
(* SpecF32, which ends at the final projection, and over exact rationals   *)
(* in Spec, which goes on through the warp.  SpecHull follows every order  *)
(* of the control points up to the ordering loop.  The calls into the      *)
(* image and imageproc crates are modelled by what the crates compute.     *)
(***************************************************************************)
EXTENDS Integers, Sequences, FiniteSets, TLC

VARIABLES
    pc,              \* position of the invocation inside process_image
    control_points,  \* the argument: a sequence of ControlPoint
    convex_hull,     \* lib.rs:90, rotated in place at lib.rs:128
    image,           \* the decoded image (lib.rs:98)
    ord,             \* first_point, min_mid_y, min_x, max_x, min_y, max_y, new_width, new_height
    cropped,         \* the `image` of lib.rs:129, which shadows the decoded one
    projection,      \* the forward matrix and the final projection (lib.rs:144-147)
    squared,         \* the warped raster (lib.rs:149)
    result           \* what the invocation ends with: Ok(bytes), Err(kind) or a panic

vars == <<pc, control_points, convex_hull, image, ord, cropped, projection, squared, result>>

-----------------------------------------------------------------------------
(* Bounds of the model.                                                    *)

\* SpecHull: control points are drawn, in every order, from (0..HullMax)^2.
HullMax == 2

\* Spec: control points are drawn from (0..MaxCoord)^2.
MaxCoord == 2

Min(a, b) == IF a < b THEN a ELSE b

Max(a, b) == IF a > b THEN a ELSE b

Abs(a) == IF a < 0 THEN 0 - a ELSE a

\* the element of a one-element set.  Only({e(v) : v \in {x}}) is e(x) with x
\* evaluated once, however often e uses it.
Only(S) == CHOOSE r \in S : TRUE

\* Point::<i32>::new(cp.x, cp.y), lib.rs:88
Pt(px, py) == [x |-> px, y |-> py]

GridPoints(lo, hi) == {Pt(px, py) : px \in lo..hi, py \in lo..hi}

-----------------------------------------------------------------------------
(* Faulty variants of the code, against which the properties are tested:   *)
(* each replaces the definition named in its comment.                      *)

\* IsNonConvex that rejects only hulls of fewer than 3 vertices
FewerThanThree(hull) == Len(hull) < 3

\* IsNonConvex with the test inverted
InvertedTest(hull) == Len(hull) = 4

\* HullOfInput without the call of convex_hull
RawPoints(points) == points

\* CropImm that leaves the image as it is
NoCrop(img, x, y, width, height) == img

\* DefaultPixel as opaque black
OpaqueBlack == <<0, 0, 0, 255>>

-----------------------------------------------------------------------------
(* imageproc::geometry::convex_hull (called at lib.rs:90): a Graham scan   *)
(* that starts at the point of least y (then least x), sorts the others by *)
(* angle around it and keeps the strictly counter-clockwise turns.         *)

\* the orientation test of the scan: the sign of (q.y-p.y)(r.x-q.x) - (q.x-p.x)(r.y-q.y)
orientation(p, q, r) ==
    LET val == (q.y - p.y) * (r.x - q.x) - (q.x - p.x) * (r.y - q.y)
    IN  IF val = 0 THEN "Collinear"
        ELSE IF val > 0 THEN "Clockwise" ELSE "CounterClockwise"

\* the scan compares Euclidean distances; their squares order the same way
distance(p, q) == (p.x - q.x) * (p.x - q.x) + (p.y - q.y) * (p.y - q.y)

\* index of the first point of least y, ties broken by least x
RECURSIVE StartPointPos(_, _, _)
StartPointPos(points, i, best) ==
    IF i > Len(points) THEN best
    ELSE LET p == points[i]
             s == points[best]
         IN  IF p.y < s.y \/ (p.y = s.y /\ p.x < s.x)
             THEN StartPointPos(points, i + 1, i)
             ELSE StartPointPos(points, i + 1, best)

\* points.swap(0, start_point_pos); points.remove(0)
SwapRemove(points, pos) ==
    [i \in 1..(Len(points) - 1) |->
        IF i + 1 = pos THEN points[1] ELSE points[i + 1]]

\* the comparator of points.sort_by(..) answers Less
AngleLess(start, a, b) ==
    LET o == orientation(start, a, b)
    IN  IF o = "Collinear" THEN distance(start, a) < distance(start, b)
        ELSE o = "CounterClockwise"

\* slice::sort_by on a short slice is an insertion sort
RECURSIVE InsertTail(_, _, _)
InsertTail(start, v, j) ==
    IF j > 1 /\ AngleLess(start, v[j], v[j - 1])
    THEN InsertTail(start, [v EXCEPT ![j] = v[j - 1], ![j - 1] = v[j]], j - 1)
    ELSE v

RECURSIVE SortByAngle(_, _, _)
SortByAngle(start, v, i) ==
    IF i > Len(v) THEN v
    ELSE SortByAngle(start, InsertTail(start, v, i), i + 1)

\* of the points collinear with the start point only the farthest is kept
RECURSIVE RemainingPoints(_, _, _, _)
RemainingPoints(start, v, i, acc) ==
    IF i > Len(v) THEN acc
    ELSE IF i < Len(v) /\ orientation(start, v[i], v[i + 1]) = "Collinear"
         THEN RemainingPoints(start, v, i + 1, acc)
         ELSE RemainingPoints(start, v, i + 1, Append(acc, v[i]))

\* while the last two stacked points and p do not turn counter-clockwise: pop
RECURSIVE PopNonLeft(_, _)
PopNonLeft(stack, p) ==
    IF Len(stack) >= 2
       /\ orientation(stack[Len(stack) - 1], stack[Len(stack)], p) # "CounterClockwise"
    THEN PopNonLeft(SubSeq(stack, 1, Len(stack) - 1), p)
    ELSE stack

RECURSIVE Scan(_, _, _)
Scan(stack, v, i) ==
    IF i > Len(v) THEN stack
    ELSE Scan(Append(PopNonLeft(stack, v[i]), v[i]), v, i + 1)

ConvexHullScan(points) ==
    IF Len(points) = 0 THEN <<>>
    ELSE LET pos    == StartPointPos(points, 2, 1)
             start  == points[pos]
             sorted == SortByAngle(start, SwapRemove(points, pos), 2)
             rest   == RemainingPoints(start, sorted, 1, <<>>)
         IN  Scan(<<start>>, rest, 1)


-----------------------------------------------------------------------------
(* Exact arithmetic: a rational is [n, d] in lowest terms with d > 0.  A   *)
(* division by zero yields NonFinite (d = 0), which every operation        *)
(* propagates, as the infinities and NaNs of f32 do.                       *)

RECURSIVE GCD(_, _)
GCD(a, b) == IF b = 0 THEN a ELSE GCD(b, a % b)

NonFinite == [n |-> 0, d |-> 0]

QNorm(num, den) ==
    Only({IF v[2] = 0 THEN NonFinite
          ELSE Only({[n |-> (IF v[2] < 0 THEN 0 - 1 ELSE 1) * (v[1] \div g),
                      d |-> (IF v[2] < 0 THEN 0 - 1 ELSE 1) * (v[2] \div g)] :
                     g \in {GCD(Abs(v[1]), Abs(v[2]))}}) :
          v \in {<<num, den>>}})

QInt(k) == [n |-> k, d |-> 1]

QFinite(a) == a.d # 0

QAdd(a, b) ==
    Only({IF v[1].d = 0 \/ v[2].d = 0 THEN NonFinite
          ELSE QNorm(v[1].n * v[2].d + v[2].n * v[1].d, v[1].d * v[2].d) :
          v \in {<<a, b>>}})

QSub(a, b) ==
    Only({IF v[1].d = 0 \/ v[2].d = 0 THEN NonFinite
          ELSE QNorm(v[1].n * v[2].d - v[2].n * v[1].d, v[1].d * v[2].d) :
          v \in {<<a, b>>}})

QMul(a, b) ==
    Only({IF v[1].d = 0 \/ v[2].d = 0 THEN NonFinite
          ELSE QNorm(v[1].n * v[2].n, v[1].d * v[2].d) :
          v \in {<<a, b>>}})

QDiv(a, b) ==
    Only({IF v[1].d = 0 \/ v[2].d = 0 THEN NonFinite
          ELSE QNorm(v[1].n * v[2].d, v[1].d * v[2].n) :
          v \in {<<a, b>>}})

\* f32::round: to the nearest integer, halves away from zero
QRound(a) ==
    Only({IF v.n >= 0 THEN (2 * v.n + v.d) \div (2 * v.d)
          ELSE 0 - ((2 * (0 - v.n) + v.d) \div (2 * v.d)) :
          v \in {a}})

-----------------------------------------------------------------------------
(* f32 arithmetic: IEEE-754 binary32, round to nearest, ties to even.      *)
(* A finite value is (-1)^s * m * 2^e with m < 2^24; a normal value has    *)
(* m >= 2^23 and e in -149..104, a subnormal one e = -149, and zero is     *)
(* m = 0, e = 0 with its sign.  Every intermediate integer stays below     *)
(* 2^30.                                                                   *)

P2 == [i \in 0..30 |-> 2 ^ i]

FZero(sg) == [k |-> "fin", s |-> sg, m |-> 0, e |-> 0]

FInf(sg) == [k |-> "inf", s |-> sg, m |-> 0, e |-> 0]

FNaN == [k |-> "nan", s |-> 0, m |-> 0, e |-> 0]

FIsFinite(a) == a.k = "fin"

FIsZero(a) == a.k = "fin" /\ a.m = 0

\* the number of bits of M, for 0 < M < 2^30
BitLen(M) == Only({(CHOOSE L \in 1..30 : v >= P2[L - 1] /\ v < P2[L]) : v \in {M}})

\* x with a sticky bit or-ed into its lowest bit
Jam(x, sticky) == IF sticky /\ x % 2 = 0 THEN x + 1 ELSE x

Xor(a, b) == IF a = b THEN 0 ELSE 1

\* M * 2^e shifted right by d > 0 bits and rounded to nearest, ties to even
RoundShift(sg, M, e, d) ==
    IF d > 30 THEN FZero(sg)
    ELSE LET q    == M \div P2[d]
             r    == M % P2[d]
             half == P2[d - 1]
             up   == r > half \/ (r = half /\ q % 2 = 1)
             q2   == IF up THEN q + 1 ELSE q
             m2   == IF q2 = P2[24] THEN P2[23] ELSE q2
             e2   == IF q2 = P2[24] THEN e + d + 1 ELSE e + d
         IN  IF m2 = 0 THEN FZero(sg)
             ELSE IF e2 > 104 THEN FInf(sg)
             ELSE [k |-> "fin", s |-> sg, m |-> m2, e |-> e2]

\* the f32 nearest to M * 2^e (M < 2^30, its lowest bit possibly a sticky bit)
RoundPack(sg, M, e) ==
    Only({IF v[2] = 0 THEN FZero(v[1])
          ELSE Only({IF d <= 0
                     THEN IF v[3] + d > 104 THEN FInf(v[1])
                          ELSE [k |-> "fin", s |-> v[1], m |-> v[2] * P2[0 - d], e |-> v[3] + d]
                     ELSE RoundShift(v[1], v[2], v[3], d) :
                     d \in {Max(BitLen(v[2]) - 24, (0 - 149) - v[3])}}) :
          v \in {<<sg, M, e>>}})

\* a nonzero finite operand with its significand shifted up to 24 bits
NormOp(a) ==
    Only({[m |-> a.m * P2[sh], e |-> a.e - sh] : sh \in {24 - BitLen(a.m)}})

FNeg(a) == Only({IF v.k = "nan" THEN v ELSE [v EXCEPT !.s = 1 - v.s] : v \in {a}})

\* `v as f32` for an i32 v with |v| < 2^30
FFromInt(v) == IF v < 0 THEN RoundPack(1, 0 - v, 0) ELSE RoundPack(0, v, 0)

\* the 48-bit product ma * mb of two 24-bit significands from 12-bit limbs, as
\* its upper 27 bits with the rest jammed into a sticky bit
MulSignificands(ma, mb) ==
    LET a1    == ma \div 4096
        a0    == ma % 4096
        b1    == mb \div 4096
        b0    == mb % 4096
        mid   == a1 * b0 + a0 * b1
        low24 == (mid % 4096) * 4096 + a0 * b0
        H     == a1 * b1 + mid \div 4096 + low24 \div P2[24]
        L     == low24 % P2[24]
    IN  Jam(H * 8 + L \div P2[21], L % P2[21] # 0)

\* a * b
FMul(a, b) ==
    Only({IF v[1].k = "nan" \/ v[2].k = "nan" THEN FNaN
          ELSE IF v[1].k = "inf" \/ v[2].k = "inf"
               THEN IF FIsZero(v[1]) \/ FIsZero(v[2]) THEN FNaN ELSE FInf(Xor(v[1].s, v[2].s))
          ELSE IF v[1].m = 0 \/ v[2].m = 0 THEN FZero(Xor(v[1].s, v[2].s))
          ELSE Only({RoundPack(Xor(v[1].s, v[2].s), MulSignificands(n[1].m, n[2].m),
                               n[1].e + n[2].e + 21) :
                     n \in {<<NormOp(v[1]), NormOp(v[2])>>}}) :
          v \in {<<a, b>>}})

\* the quotient bits of r / mb by long division; r < 2 * mb throughout
RECURSIVE LongDiv(_, _, _, _)
LongDiv(r, mb, q, steps) ==
    IF steps = 0 THEN [q |-> q, r |-> r]
    ELSE Only({IF v[1] >= v[2] THEN LongDiv((v[1] - v[2]) * 2, v[2], 2 * v[3] + 1, v[4] - 1)
               ELSE LongDiv(v[1] * 2, v[2], 2 * v[3], v[4] - 1) :
               v \in {<<r, mb, q, steps>>}})

\* a / b
FDiv(a, b) ==
    Only({IF v[1].k = "nan" \/ v[2].k = "nan" THEN FNaN
          ELSE IF v[1].k = "inf"
               THEN (IF v[2].k = "inf" THEN FNaN ELSE FInf(Xor(v[1].s, v[2].s)))
          ELSE IF v[2].k = "inf" THEN FZero(Xor(v[1].s, v[2].s))
          ELSE IF v[2].m = 0
               THEN (IF v[1].m = 0 THEN FNaN ELSE FInf(Xor(v[1].s, v[2].s)))
          ELSE IF v[1].m = 0 THEN FZero(Xor(v[1].s, v[2].s))
          ELSE Only({RoundPack(Xor(v[1].s, v[2].s), Jam(qr.q, qr.r # 0),
                               NormOp(v[1]).e - NormOp(v[2]).e - 27) :
                     qr \in {LongDiv(NormOp(v[1]).m, NormOp(v[2]).m, 0, 28)}}) :
          v \in {<<a, b>>}})

\* big + small for nonzero finite operands with |big| >= |small|: the smaller
\* one is aligned under three guard bits
AddAligned(big, small) ==
    LET d  == big.e - small.e
        Mb == big.m * 8
        Ms == IF d >= 27 THEN 1
              ELSE Jam((small.m * 8) \div P2[d], (small.m * 8) % P2[d] # 0)
    IN  Only({IF M = 0 THEN FZero(0) ELSE RoundPack(big.s, M, big.e - 3) :
              M \in {IF big.s = small.s THEN Mb + Ms ELSE Mb - Ms}})

\* a + b
FAdd(a, b) ==
    Only({IF v[1].k = "nan" \/ v[2].k = "nan" THEN FNaN
          ELSE IF v[1].k = "inf"
               THEN (IF v[2].k = "inf" /\ v[2].s # v[1].s THEN FNaN ELSE v[1])
          ELSE IF v[2].k = "inf" THEN v[2]
          ELSE IF v[1].m = 0 /\ v[2].m = 0
               THEN FZero(IF v[1].s = 1 /\ v[2].s = 1 THEN 1 ELSE 0)
          ELSE IF v[1].m = 0 THEN v[2]
          ELSE IF v[2].m = 0 THEN v[1]
          ELSE IF v[1].e > v[2].e \/ (v[1].e = v[2].e /\ v[1].m >= v[2].m)
               THEN AddAligned(v[1], v[2])
               ELSE AddAligned(v[2], v[1]) :
          v \in {<<a, b>>}})

FSub(a, b) == FAdd(a, FNeg(b))

\* |a| < |b| for finite a, b
FMagLess(a, b) ==
    IF b.m = 0 THEN FALSE
    ELSE IF a.m = 0 THEN TRUE
    ELSE Only({n[1].e < n[2].e \/ (n[1].e = n[2].e /\ n[1].m < n[2].m) :
               n \in {<<NormOp(a), NormOp(b)>>}})

-----------------------------------------------------------------------------
(* The f32 operators of lib.rs under the two arithmetics: ar = "f32" is    *)
(* binary32, ar = "exact" the rationals.                                   *)

Mul(ar, a, b) == IF ar = "f32" THEN FMul(a, b) ELSE QMul(a, b)

Add(ar, a, b) == IF ar = "f32" THEN FAdd(a, b) ELSE QAdd(a, b)

Sub(ar, a, b) == IF ar = "f32" THEN FSub(a, b) ELSE QSub(a, b)

Div(ar, a, b) == IF ar = "f32" THEN FDiv(a, b) ELSE QDiv(a, b)

Neg(ar, a) == IF ar = "f32" THEN FNeg(a) ELSE QSub(QInt(0), a)

\* `v as f32`, and the literals 0.0 and 1.0
Num(ar, v) == IF ar = "f32" THEN FFromInt(v) ELSE QInt(v)

IsFinite(ar, a) == IF ar = "f32" THEN FIsFinite(a) ELSE QFinite(a)

AllFinite(ar, t) == \A j \in 1..Len(t) : IsFinite(ar, t[j])

\* Iterator::collect: the mapped values as a Vec
Collect(f) == SubSeq(f, 1, Len(f))

\* lib.rs:135-143: the hull relative to (min_x, min_y), divided by new_width, new_height
ScaledHullVec(ar, hull, o) ==
    Collect([j \in 1..Len(hull) |->
                <<Div(ar, Num(ar, hull[j].x - o.min_x), Num(ar, o.new_width)),
                  Div(ar, Num(ar, hull[j].y - o.min_y), Num(ar, o.new_height))>>])

\* lib.rs:62 and 66: the divisor of g and of h
Denominator(ar, points) ==
    LET xt2 == points[2][1]
        yt2 == points[2][2]
        xt3 == points[3][1]
        yt3 == points[3][2]
        xt4 == points[4][1]
        yt4 == points[4][2]
    IN  Sub(ar, Add(ar, Add(ar, Sub(ar, Sub(ar, Mul(ar, xt2, yt3), Mul(ar, xt2, yt4)),
                                        Mul(ar, xt3, yt2)),
                            Mul(ar, xt3, yt4)),
                    Mul(ar, xt4, yt2)),
            Mul(ar, xt4, yt3))

\* lib.rs:59-61: the dividend of g
NumeratorG(ar, points) ==
    LET xt1 == points[1][1]
        yt1 == points[1][2]
        xt2 == points[2][1]
        yt2 == points[2][2]
        xt3 == points[3][1]
        yt3 == points[3][2]
        xt4 == points[4][1]
        yt4 == points[4][2]
    IN  Sub(ar, Add(ar, Add(ar, Sub(ar, Add(ar, Sub(ar, Sub(ar, Mul(ar, xt1, yt3),
                                                            Mul(ar, xt1, yt4)),
                                                    Mul(ar, xt2, yt3)),
                                            Mul(ar, xt2, yt4)),
                                    Mul(ar, xt3, yt1)),
                            Mul(ar, xt3, yt2)),
                    Mul(ar, xt4, yt1)),
            Mul(ar, xt4, yt2))

\* lib.rs:63-65: the dividend of h
NumeratorH(ar, points) ==
    LET xt1 == points[1][1]
        yt1 == points[1][2]
        xt2 == points[2][1]
        yt2 == points[2][2]
        xt3 == points[3][1]
        yt3 == points[3][2]
        xt4 == points[4][1]
        yt4 == points[4][2]
    IN  Add(ar, Sub(ar, Sub(ar, Add(ar, Add(ar, Sub(ar, Sub(ar, Mul(ar, xt1, yt2),
                                                            Mul(ar, xt1, yt3)),
                                                    Mul(ar, xt2, yt1)),
                                            Mul(ar, xt2, yt4)),
                                    Mul(ar, xt3, yt1)),
                            Mul(ar, xt3, yt4)),
                    Mul(ar, xt4, yt2)),
            Mul(ar, xt4, yt3))

\* lib.rs:59-66: g and h
SolveGH(ar, points) ==
    Only({<<Div(ar, NumeratorG(ar, p), den), Div(ar, NumeratorH(ar, p), den)>> :
          p \in {points}, den \in {Denominator(ar, points)}})

\* lib.rs:67-73 for gh = <<g, h>>: the matrix [a, b, c, d, e, f, g, h, i]
MatrixOf(ar, points, gh) ==
    LET xt1 == points[1][1]
        yt1 == points[1][2]
        xt2 == points[2][1]
        yt2 == points[2][2]
        xt4 == points[4][1]
        yt4 == points[4][2]
        g   == gh[1]
        h   == gh[2]
        e   == Add(ar, Sub(ar, Mul(ar, h, yt4), yt1), yt4)
        d   == Add(ar, Sub(ar, Mul(ar, g, yt2), yt1), yt2)
        b   == Add(ar, Sub(ar, Mul(ar, h, xt4), xt1), xt4)
        a   == Add(ar, Sub(ar, Mul(ar, g, xt2), xt1), xt2)
        c   == Add(ar, Num(ar, 0), xt1)
        f   == Add(ar, Num(ar, 0), yt1)
        i   == Num(ar, 1)
    IN  <<a, b, c, d, e, f, g, h, i>>

\* lib.rs:59-73: the matrix handed to from_matrix
ProjectionMatrix(ar, points) ==
    Only({MatrixOf(ar, p, gh) : p \in {points}, gh \in {SolveGH(ar, points)}})

-----------------------------------------------------------------------------
(* imageproc::geometric_transformations::Projection, as lib.rs uses it:    *)
(* from_matrix (lib.rs:74), scale, invert and and_then (lib.rs:145-147).   *)
(* A Projection holds a row-major 3x3 transform and its inverse.           *)

\* x1 * y1 - x2 * y2
Minor(ar, x1, y1, x2, y2) == Sub(ar, Mul(ar, x1, y1), Mul(ar, x2, y2))

\* the determinant of the matrix t by its first row
DetOf(ar, t) ==
    LET m00 == Minor(ar, t[5], t[9], t[6], t[8])
        m01 == Minor(ar, t[4], t[9], t[6], t[7])
        m02 == Minor(ar, t[4], t[8], t[5], t[7])
    IN  Add(ar, Sub(ar, Mul(ar, t[1], m00), Mul(ar, t[2], m01)), Mul(ar, t[3], m02))

Det(ar, matrix) == Only({DetOf(ar, t) : t \in {matrix}})

\* 1e-10 as an f32
DetEps == [k |-> "fin", s |-> 0, m |-> 14411519, e |-> 0 - 57]

\* `det.abs() < 1e-10`: false of a NaN and of an infinity.  A nonzero rational
\* whose denominator is below 2^31 is never below 1e-10.
IsSingular(ar, det) ==
    Only({IF ar = "f32" THEN FIsFinite(v) /\ FMagLess(v, DetEps)
          ELSE QFinite(v) /\ v.n = 0 :
          v \in {det}})

\* the adjugate of the matrix t times inv = 1 / det
Adjugate(ar, t, inv) ==
    <<Mul(ar, Minor(ar, t[5], t[9], t[6], t[8]), inv),
      Mul(ar, Neg(ar, Minor(ar, t[2], t[9], t[3], t[8])), inv),
      Mul(ar, Minor(ar, t[2], t[6], t[3], t[5]), inv),
      Mul(ar, Neg(ar, Minor(ar, t[4], t[9], t[6], t[7])), inv),
      Mul(ar, Minor(ar, t[1], t[9], t[3], t[7]), inv),
      Mul(ar, Neg(ar, Minor(ar, t[1], t[6], t[3], t[4])), inv),
      Mul(ar, Minor(ar, t[4], t[8], t[5], t[7]), inv),
      Mul(ar, Neg(ar, Minor(ar, t[1], t[8], t[2], t[7])), inv),
      Mul(ar, Minor(ar, t[1], t[5], t[2], t[4]), inv)>>

Inverse(ar, matrix) ==
    Only({Adjugate(ar, t, inv) :
          t \in {matrix}, inv \in {Div(ar, Num(ar, 1), Det(ar, matrix))}})

\* the matrix over its last entry
Normalize(ar, matrix) ==
    Only({<<Div(ar, t[1], t[9]), Div(ar, t[2], t[9]), Div(ar, t[3], t[9]),
            Div(ar, t[4], t[9]), Div(ar, t[5], t[9]), Div(ar, t[6], t[9]),
            Div(ar, t[7], t[9]), Div(ar, t[8], t[9]), Div(ar, t[9], t[9])>> :
          t \in {matrix}})

\* Projection::from_matrix: None when the normalized matrix is singular
FromMatrix(ar, matrix) ==
    Only({IF IsSingular(ar, Det(ar, n)) THEN [some |-> FALSE]
          ELSE [some |-> TRUE, transform |-> n, inverse |-> Inverse(ar, n)] :
          n \in {Normalize(ar, matrix)}})

\* lib.rs:55-78
scaled_control_points_to_projection(ar, points) ==
    Only({IF Len(p) = 4 THEN FromMatrix(ar, ProjectionMatrix(ar, p))
          ELSE [some |-> FALSE] :
          p \in {points}})

\* Projection::scale(s_x, s_y)
Scale(ar, s_x, s_y) ==
    Only({[some |-> TRUE,
           transform |-> <<v[1], v[3], v[3], v[3], v[2], v[3], v[3], v[3], v[4]>>,
           inverse   |-> <<Div(ar, v[4], v[1]), v[3], v[3], v[3], Div(ar, v[4], v[2]), v[3],
                           v[3], v[3], v[4]>>] :
          v \in {<<s_x, s_y, Num(ar, 0), Num(ar, 1)>>}})

\* row r of a times column c of b
Dot3(ar, a, b, r, c) ==
    Add(ar, Add(ar, Mul(ar, a[3 * r + 1], b[c + 1]), Mul(ar, a[3 * r + 2], b[c + 4])),
        Mul(ar, a[3 * r + 3], b[c + 7]))

\* the 3x3 product a * b
Mul3x3(ar, a, b) ==
    Only({<<Dot3(ar, v[1], v[2], 0, 0), Dot3(ar, v[1], v[2], 0, 1), Dot3(ar, v[1], v[2], 0, 2),
            Dot3(ar, v[1], v[2], 1, 0), Dot3(ar, v[1], v[2], 1, 1), Dot3(ar, v[1], v[2], 1, 2),
            Dot3(ar, v[1], v[2], 2, 0), Dot3(ar, v[1], v[2], 2, 1), Dot3(ar, v[1], v[2], 2, 2)>> :
          v \in {<<a, b>>}})

\* Projection::invert
Invert(p) == Only({[some |-> TRUE, transform |-> v.inverse, inverse |-> v.transform] : v \in {p}})

\* p.and_then(q): first p, then q
AndThen(ar, p, q) ==
    Only({[some |-> TRUE,
           transform |-> Mul3x3(ar, v[2].transform, v[1].transform),
           inverse   |-> Mul3x3(ar, v[1].inverse, v[2].inverse)] :
          v \in {<<p, q>>}})

\* lib.rs:145-147
FinalProjection(ar, fwd, o) ==
    AndThen(ar,
            AndThen(ar,
                    Scale(ar, Div(ar, Num(ar, 1), Num(ar, o.new_width)),
                              Div(ar, Num(ar, 1), Num(ar, o.new_height))),
                    Invert(fwd)),
            Scale(ar, Num(ar, o.new_width), Num(ar, o.new_height)))

\* the image of (x, y) under the matrix t
MapProjective(ar, matrix, x, y) ==
    Only({<<Div(ar, Add(ar, Add(ar, Mul(ar, t[1], x), Mul(ar, t[2], y)), t[3]), den),
            Div(ar, Add(ar, Add(ar, Mul(ar, t[4], x), Mul(ar, t[5], y)), t[6]), den)>> :
          t \in {matrix},
          den \in {Add(ar, Add(ar, Mul(ar, matrix[7], x), Mul(ar, matrix[8], y)), matrix[9])}})

-----------------------------------------------------------------------------
(* process_image, lib.rs:81-157.                                           *)

\* lib.rs:86-90: the control points become Point<i32>s and go to convex_hull
HullOfInput(points) == ConvexHullScan(points)

\* lib.rs:91: `if convex_hull.len() != 4`
IsNonConvex(hull) == Len(hull) # 4

\* lib.rs:92-94
NonConvexError == [tag |-> "Err", kind |-> "Squaring", message |-> "Non-convex quadrilateral"]

NoResult == [tag |-> "None"]

\* a panic unwinds out of the command: no Result value is returned
Panic(what) == [tag |-> "Panic", message |-> what]

\* `?` at lib.rs:96, 97, 99, 100 and 155 returns Err(ErrorWrapper::from(e))
ErrOf(variant) == [tag |-> "Err", kind |-> variant, message |-> "transparent"]

\* i32 `/`, which truncates toward zero (lib.rs:116)
TruncDiv(a, b) == IF a >= 0 THEN a \div b ELSE 0 - ((0 - a) \div b)

\* one pass of the loop body, lib.rs:110-124, for the 0-based index i
LoopBody(hull, st, i) ==
    LET x     == hull[i + 1].x
        y     == hull[i + 1].y
        nxt   == hull[((i + 1) % 4) + 1]
        mid_y == TruncDiv(y + nxt.y, 2)
        base  == [st EXCEPT !.min_x = Min(x, st.min_x), !.max_x = Max(x, st.max_x),
                            !.min_y = Min(y, st.min_y), !.max_y = Max(y, st.max_y)]
    IN  IF mid_y < st.min_mid_y
        THEN [base EXCEPT !.min_mid_y = mid_y,
                          !.first_point = IF x < nxt.x THEN i ELSE (i + 1) % 4]
        ELSE base

RECURSIVE OrderLoop(_, _, _)
OrderLoop(hull, st, i) ==
    IF i >= 4 THEN st ELSE OrderLoop(hull, LoopBody(hull, st, i), i + 1)

\* lib.rs:101-108: the initial values come from the decoded image
LoopInit(img) ==
    [first_point |-> 0, min_mid_y |-> img.height, min_x |-> img.width, max_x |-> 0 - 1,
     min_y |-> img.height, max_y |-> 0 - 1]

\* Vec::rotate_left(k), lib.rs:128
RotateLeft(s, k) == [i \in 1..Len(s) |-> s[((i - 1 + k) % Len(s)) + 1]]

\* lib.rs:101-128: the loop, new_width / new_height (integer-valued) and the rotation
OrderPoints(hull, img) ==
    LET st == OrderLoop(hull, LoopInit(img), 0)
    IN  [hull |-> RotateLeft(hull, st.first_point),
         ord  |-> [first_point |-> st.first_point, min_mid_y |-> st.min_mid_y,
                   min_x |-> st.min_x, max_x |-> st.max_x,
                   min_y |-> st.min_y, max_y |-> st.max_y,
                   new_width |-> st.max_x - st.min_x,
                   new_height |-> st.max_y - st.min_y]]

-----------------------------------------------------------------------------
(* The decoded payloads of the model: small images of three sizes.  A      *)
(* "coord" image gives every pixel its own colour; Rgb8 sources have no    *)
(* alpha channel.                                                          *)

ImageSizes == {<<1, 1>>, <<2, 3>>, <<4, 4>>}

Images ==
    {[width |-> s[1], height |-> s[2], x0 |-> 0, y0 |-> 0, color |-> "Rgb8", kind |-> "coord"] :
        s \in ImageSizes}
    \cup {[width |-> 4, height |-> 4, x0 |-> 0, y0 |-> 0, color |-> "Rgba8", kind |-> "red"],
          [width |-> 100, height |-> 100, x0 |-> 0, y0 |-> 0, color |-> "Rgba8", kind |-> "red"]}

NoImage == [width |-> 0, height |-> 0, x0 |-> 0, y0 |-> 0, color |-> "none", kind |-> "none"]

NoOrd ==
    [first_point |-> 0, min_mid_y |-> 0, min_x |-> 0, max_x |-> 0, min_y |-> 0, max_y |-> 0,
     new_width |-> 0, new_height |-> 0]

\* the failures of lib.rs:96-100, by ErrorWrapper variant
DecodeErrors == {"DataUrl", "Base64", "Io", "Image"}

\* the source pixel (i, j) of img, whose origin is (x0, y0) of the decoded image
Pixel(img, i, j) ==
    IF img.kind = "red" THEN <<255, 0, 0, 255>>
    ELSE <<img.x0 + i + 1, img.y0 + j + 1, 7>>

\* DynamicImage::to_rgba8 (lib.rs:150): a pixel without alpha becomes opaque
ToRgba8(p) == IF Len(p) = 3 THEN Append(p, 255) ELSE p

\* image::Rgba([0, 0, 0, 0]), lib.rs:153
DefaultPixel == <<0, 0, 0, 0>>

\* `v as u32` clamped to limit <= 2^31 by crop_imm: a negative i32 wraps to v + 2^32
ClampU32(v, limit) == IF v < 0 THEN limit ELSE Min(v, limit)

\* DynamicImage::crop_imm(x, y, width, height): the rectangle is cut to the image
CropImm(img, x, y, width, height) ==
    LET cx == ClampU32(x, img.width)
        cy == ClampU32(y, img.height)
    IN  [img EXCEPT !.x0 = img.x0 + cx, !.y0 = img.y0 + cy,
                    !.width = Min(width, img.width - cx),
                    !.height = Min(height, img.height - cy)]

\* Interpolation::Nearest for src = (x, y): the pixel at the rounded coordinate,
\* or the default when that lies outside the image
Nearest(img, src, default) ==
    IF ~QFinite(src[1]) \/ ~QFinite(src[2]) THEN default
    ELSE Only({IF r[1] < 0 \/ r[1] >= img.width \/ r[2] < 0 \/ r[2] >= img.height
               THEN default
               ELSE ToRgba8(Pixel(img, r[1], r[2])) :
               r \in {<<QRound(src[1]), QRound(src[2])>>}})

\* geometric_transformations::warp: an output of the size of the input, each pixel
\* fetched through the inverse of the projection
WarpImage(img, proj, default) ==
    [width  |-> img.width,
     height |-> img.height,
     px     |-> [q \in (0..(img.width - 1)) \X (0..(img.height - 1)) |->
                    Only({Nearest(img, src, default) :
                          src \in {MapProjective("exact", proj.inverse,
                                                 QInt(q[1]), QInt(q[2]))}})]]
-----------------------------------------------------------------------------
(* The stages.                                                             *)

\* lib.rs:85-95
Validate ==
    /\ pc = "start"
    /\ IF Len(control_points) # 4
       THEN /\ pc' = "panicked"
            /\ result' = Panic("assertion failed: control_points.len() == 4")
            /\ UNCHANGED convex_hull
       ELSE LET hull == HullOfInput(control_points)
            IN  /\ convex_hull' = hull
                /\ IF IsNonConvex(hull)
                   THEN pc' = "returned" /\ result' = NonConvexError
                   ELSE pc' = "validated" /\ UNCHANGED result
    /\ UNCHANGED <<control_points, image, ord, cropped, projection, squared>>

\* lib.rs:96-100, the payload decodes
DecodeOk ==
    /\ pc = "validated"
    /\ \E img \in Images : image' = img
    /\ pc' = "decoded"
    /\ UNCHANGED <<control_points, convex_hull, ord, cropped, projection, squared, result>>

\* lib.rs:96-100, one of the four `?` returns
DecodeErr ==
    /\ pc = "validated"
    /\ \E e \in DecodeErrors : result' = ErrOf(e)
    /\ pc' = "returned"
    /\ UNCHANGED <<control_points, convex_hull, image, ord, cropped, projection, squared>>

\* lib.rs:101-128
Order ==
    /\ pc = "decoded"
    /\ LET o == OrderPoints(convex_hull, image)
       IN  convex_hull' = o.hull /\ ord' = o.ord
    /\ pc' = "ordered"
    /\ UNCHANGED <<control_points, image, cropped, projection, squared, result>>

\* lib.rs:129-134
Crop ==
    /\ pc = "ordered"
    /\ cropped' = CropImm(image, ord.min_x, ord.min_y, ord.new_width, ord.new_height)
    /\ pc' = "cropped"
    /\ UNCHANGED <<control_points, convex_hull, image, ord, projection, squared, result>>

\* lib.rs:135-147 under the arithmetic ar; `unwrap` panics on None
Solve(ar) ==
    /\ pc = "cropped"
    /\ \E scaled \in {ScaledHullVec(ar, convex_hull, ord)} :
         \E fwd \in {scaled_control_points_to_projection(ar, scaled)} :
            IF fwd.some
            THEN /\ projection' = [ar |-> ar, scaled |-> scaled, matrix |-> fwd.transform,
                                   final |-> FinalProjection(ar, fwd, ord)]
                 /\ pc' = "solved"
                 /\ UNCHANGED result
            ELSE /\ projection' = [ar |-> ar, scaled |-> scaled,
                                   matrix |-> ProjectionMatrix(ar, scaled)]
                 /\ pc' = "panicked"
                 /\ result' = Panic("called Option::unwrap() on a None value")
    /\ UNCHANGED <<control_points, convex_hull, image, ord, cropped, squared>>

\* lib.rs:148-154
Warp ==
    /\ pc = "solved"
    /\ projection.ar = "exact"
    /\ squared' = WarpImage(cropped, projection.final, DefaultPixel)
    /\ pc' = "warped"
    /\ UNCHANGED <<control_points, convex_hull, image, ord, cropped, projection, result>>

\* lib.rs:155-156, the PNG encoder succeeds
EncodeOk ==
    /\ pc = "warped"
    /\ result' = [tag |-> "Ok", bytes |-> <<"png", squared>>]
    /\ pc' = "returned"
    /\ UNCHANGED <<control_points, convex_hull, image, ord, cropped, projection, squared>>

\* lib.rs:155, the `?` returns the encoder's error
EncodeErr ==
    /\ pc = "warped"
    /\ result' = ErrOf("Image")
    /\ pc' = "returned"
    /\ UNCHANGED <<control_points, convex_hull, image, ord, cropped, projection, squared>>

InitCommon ==
    /\ pc = "start"
    /\ convex_hull = <<>>
    /\ image = NoImage
    /\ ord = NoOrd
    /\ cropped = NoImage
    /\ projection = <<>>
    /\ squared = <<>>
    /\ result = NoResult

\* a quadrilateral with a vertical edge next to its topmost vertex
SteepScenario == <<Pt(1, 0), Pt(1, 3), Pt(0, 3), Pt(0, 2)>>

\* every list of 4 control points of the grid, in every order, and the scenario
InitHull ==
    /\ control_points \in [1..4 -> GridPoints(0, HullMax)] \cup {SteepScenario}
    /\ InitCommon

NextHull == Validate \/ DecodeOk \/ DecodeErr \/ Order

SpecHull == InitHull /\ [][NextHull]_vars

\* sequences of 4 grid points in increasing order: one order per set of points
SortedQuads(lo, hi) ==
    LET key(p) == (p.x - lo) * (hi - lo + 1) + (p.y - lo)
    IN  {q \in [1..4 -> GridPoints(lo, hi)] : \A j \in 1..3 : key(q[j]) < key(q[j + 1])}

\* the scenario of an already square region: (10,10), (90,10), (90,90), (10,90)
SquareScenario == <<Pt(10, 10), Pt(90, 10), Pt(90, 90), Pt(10, 90)>>

Init ==
    /\ control_points \in SortedQuads(0, MaxCoord) \cup {SquareScenario}
    /\ InitCommon

Next == Validate \/ DecodeOk \/ DecodeErr \/ Order \/ Crop \/ Solve("exact") \/ Warp
        \/ EncodeOk \/ EncodeErr

Spec == Init /\ [][Next]_vars

\* a quadrilateral of strictly convex position whose corners lie within one
\* pixel of the diagonal: (0,0), (n,n-1), (2n+1,2n-1), (n+1,n)
Sliver(n) == <<Pt(0, 0), Pt(n, n - 1), Pt(2 * n + 1, 2 * n - 1), Pt(n + 1, n)>>

SliverSizes == {1705, 2099}

\* an invocation with 3 control points
ShortList == <<Pt(0, 0), Pt(1, 0), Pt(0, 1)>>

InitF32 ==
    /\ control_points \in SortedQuads(0, MaxCoord) \cup {Sliver(n) : n \in SliverSizes}
                          \cup {SquareScenario, ShortList}
    /\ InitCommon

NextF32 == Validate \/ DecodeOk \/ DecodeErr \/ Order \/ Crop \/ Solve("f32")

\* process_image with the f32 arithmetic of lib.rs, up to the final projection
SpecF32 == InitF32 /\ [][NextF32]_vars

-----------------------------------------------------------------------------
(* Properties.  The notions they use are defined here from the points      *)
(* alone, not from the operators of the model.                             *)

\* twice the signed area of the triangle a, b, c
Cross(a, b, c) == (b.x - a.x) * (c.y - a.y) - (b.y - a.y) * (c.x - a.x)

\* p lies strictly inside the triangle a, b, c
InsideTriangle(p, a, b, c) ==
    \/ Cross(a, b, p) > 0 /\ Cross(b, c, p) > 0 /\ Cross(c, a, p) > 0
    \/ Cross(a, b, p) < 0 /\ Cross(b, c, p) < 0 /\ Cross(c, a, p) < 0

\* 4 points in strictly convex position: no two coincide, no three are
\* collinear and none lies inside the triangle of the other three
StrictlyConvex(points) ==
    /\ Len(points) = 4
    /\ \A i, j, k \in 1..4 :
          i < j /\ j < k => Cross(points[i], points[j], points[k]) # 0
    /\ \A i, j, k, l \in 1..4 :
          {i, j, k, l} = 1..4 => ~InsideTriangle(points[i], points[j], points[k], points[l])

SetOf(s) == {s[i] : i \in DOMAIN s}

Succ4(i) == (i % 4) + 1

\* C1: a list of 4 control points that is not in strictly convex position ends
\* the invocation with the error "Non-convex quadrilateral" and without an image.
C1_NonConvexRejected ==
    (pc # "start" /\ ~StrictlyConvex(control_points)) =>
        /\ pc = "returned"
        /\ result = NonConvexError
        /\ image = NoImage
        /\ squared = <<>>

\* three collinear points and one off the line, rejected
C1_Witness ==
    /\ pc = "returned"
    /\ result = NonConvexError
    /\ \E i, j, k \in 1..4 :
          /\ i < j /\ j < k
          /\ Cross(control_points[i], control_points[j], control_points[k]) = 0
          /\ Cardinality(SetOf(control_points)) = 4
          /\ \E l \in 1..4 : Cross(control_points[i], control_points[j], control_points[l]) # 0

\* C2: 4 control points in strictly convex position, in any order, pass the
\* validation, and the hull has exactly 4 vertices, the 4 input points.
C2_ConvexAccepted ==
    (pc # "start" /\ StrictlyConvex(control_points)) =>
        /\ result # NonConvexError
        /\ Len(convex_hull) = 4
        /\ SetOf(convex_hull) = SetOf(control_points)
        /\ Cardinality(SetOf(convex_hull)) = 4

\* an accepted list whose order is not the order of the hull
C2_Witness ==
    /\ pc = "validated"
    /\ StrictlyConvex(control_points)
    /\ \A k \in 0..3 : \E i \in 1..4 : convex_hull[i] # control_points[((i - 1 + k) % 4) + 1]

MinOf(S) == CHOOSE v \in S : \A w \in S : v <= w

MaxOf(S) == CHOOSE v \in S : \A w \in S : v >= w

XSpan(points) == MaxOf({p.x : p \in SetOf(points)}) - MinOf({p.x : p \in SetOf(points)})

YSpan(points) == MaxOf({p.y : p \in SetOf(points)}) - MinOf({p.y : p \in SetOf(points)})

\* C3: the output image is as wide as the x coordinates of the 4 control
\* points span and as high as their y coordinates span, whatever the size of
\* the source image.
C3_OutputDims ==
    squared # <<>> =>
        /\ squared.width = XSpan(control_points)
        /\ squared.height = YSpan(control_points)

\* a = b as numbers
Same(ar, a, b) ==
    IF ar = "f32"
    THEN \/ a.k = "fin" /\ b.k = "fin" /\ (a = b \/ (a.m = 0 /\ b.m = 0))
         \/ a.k = "inf" /\ b.k = "inf" /\ a.s = b.s
    ELSE QFinite(a) /\ a = b

\* the matrix t sends (x, y) to (u, v)
Sends(ar, t, x, y, u, v) ==
    LET to == MapProjective(ar, t, x, y)
    IN  Same(ar, to[1], u) /\ Same(ar, to[2], v)

\* C4: the matrix of scaled_control_points_to_projection sends the corners
\* (0,0), (1,0), (1,1), (0,1) of the unit square to the 1st, 2nd, 3rd and 4th
\* normalized point, and the final projection sends the ordered corners, taken
\* relative to (min_x, min_y), to (0,0), (width,0), (width,height), (0,height).
C4_CornersMapped ==
    pc = "solved" =>
        LET ar  == projection.ar
            m   == projection.matrix
            s   == projection.scaled
            fin == projection.final.transform
            rel(j) == <<Num(ar, convex_hull[j].x - ord.min_x),
                        Num(ar, convex_hull[j].y - ord.min_y)>>
            w   == Num(ar, ord.new_width)
            h   == Num(ar, ord.new_height)
            z   == Num(ar, 0)
            one == Num(ar, 1)
        IN  /\ Sends(ar, m, z, z, s[1][1], s[1][2])
            /\ Sends(ar, m, one, z, s[2][1], s[2][2])
            /\ Sends(ar, m, one, one, s[3][1], s[3][2])
            /\ Sends(ar, m, z, one, s[4][1], s[4][2])
            /\ Sends(ar, fin, rel(1)[1], rel(1)[2], z, z)
            /\ Sends(ar, fin, rel(2)[1], rel(2)[2], w, z)
            /\ Sends(ar, fin, rel(3)[1], rel(3)[2], w, h)
            /\ Sends(ar, fin, rel(4)[1], rel(4)[2], z, h)

\* C5: with the control points passed in any cyclic rotation of their order,
\* the hull is accepted again and the ordering loop ends with the same sequence
\* and the same bounding box; the crop, the projection and the warp read
\* nothing else but the image.
C5_RotationInvariant ==
    pc = "ordered" =>
        \A k \in 1..3 :
            LET h == HullOfInput(RotateLeft(control_points, k))
            IN  /\ ~IsNonConvex(h)
                /\ OrderPoints(h, image) = [hull |-> convex_hull, ord |-> ord]

\* an ordered hull that was rotated, from control points in another order
C5_Witness ==
    /\ pc = "ordered"
    /\ ord.first_point # 0
    /\ control_points[1] # convex_hull[1]
    /\ control_points[2] # convex_hull[1]

\* the corners of the axis-aligned rectangle [x0, x1] x [y0, y1]
RectCorners(x0, y0, x1, y1) == <<Pt(x0, y0), Pt(x1, y0), Pt(x1, y1), Pt(x0, y1)>>

\* the control points are the corners of an axis-aligned rectangle inside img
RectInside(points, img) ==
    /\ Len(points) = 4
    /\ \E x0, x1 \in {p.x : p \in SetOf(points)}, y0, y1 \in {p.y : p \in SetOf(points)} :
          /\ 0 <= x0 /\ x0 < x1 /\ x1 <= img.width
          /\ 0 <= y0 /\ y0 < y1 /\ y1 <= img.height
          /\ SetOf(points) = SetOf(RectCorners(x0, y0, x1, y1))

IdentityMatrix ==
    <<QInt(1), QInt(0), QInt(0), QInt(0), QInt(1), QInt(0), QInt(0), QInt(0), QInt(1)>>

\* C6: for the corners of an axis-aligned rectangle inside the source image the
\* ordering is top-left, top-right, bottom-right, bottom-left, the projection is
\* the identity and every output pixel is the pixel of the cropped source at the
\* same place; the 100x100 opaque red source with (10,10), (90,10), (90,90),
\* (10,90) gives an 80x80 opaque red output.
C6_RectangleIdentity ==
    (squared # <<>> /\ RectInside(control_points, image)) =>
        /\ \A j \in 1..4 :
              convex_hull[j] = RectCorners(ord.min_x, ord.min_y, ord.max_x, ord.max_y)[j]
        /\ projection.matrix = IdentityMatrix
        /\ projection.final.transform = IdentityMatrix
        /\ projection.final.inverse = IdentityMatrix
        /\ squared.width = XSpan(control_points)
        /\ squared.height = YSpan(control_points)
        /\ cropped.width = squared.width /\ cropped.height = squared.height
        /\ \A q \in DOMAIN squared.px :
              squared.px[q] = ToRgba8(Pixel(image, ord.min_x + q[1], ord.min_y + q[2]))
        /\ (control_points = SquareScenario /\ image.width = 100 /\ image.kind = "red") =>
              /\ squared.width = 80 /\ squared.height = 80
              /\ \A q \in (0..79) \X (0..79) : squared.px[q] = <<255, 0, 0, 255>>

\* the scenario: the 80x80 output from the 100x100 source
C6_Witness ==
    /\ pc = "warped"
    /\ control_points = SquareScenario
    /\ image.width = 100 /\ image.height = 100
    /\ RectInside(control_points, image)
    /\ Cardinality(DOMAIN squared.px) = 6400

\* the rounded source coordinate of the output pixel q: its image under the
\* inverse of the final projection, which the projection sends back to q
SourceOf(q) ==
    LET src == MapProjective("exact", projection.final.inverse, QInt(q[1]), QInt(q[2]))
    IN  IF QFinite(src[1]) /\ QFinite(src[2])
        THEN [finite |-> TRUE, x |-> QRound(src[1]), y |-> QRound(src[2]),
              back |-> MapProjective("exact", projection.final.transform, src[1], src[2])]
        ELSE [finite |-> FALSE]

\* C9: an output pixel whose source coordinate, under the inverse of the final
\* projection, falls outside the cropped source is (0,0,0,0); every other one is
\* the source pixel nearest to that coordinate.
C9_OutsideTransparent ==
    squared # <<>> =>
        /\ DOMAIN squared.px = (0..(squared.width - 1)) \X (0..(squared.height - 1))
        /\ \A q \in DOMAIN squared.px :
              LET s == SourceOf(q)
              IN  IF ~s.finite THEN squared.px[q] = <<0, 0, 0, 0>>
                  ELSE /\ s.back = <<QInt(q[1]), QInt(q[2])>>
                       /\ IF s.x < 0 \/ s.x >= cropped.width \/ s.y < 0 \/ s.y >= cropped.height
                          THEN squared.px[q] = <<0, 0, 0, 0>>
                          ELSE /\ squared.px[q] = ToRgba8(Pixel(cropped, s.x, s.y))
                               /\ squared.px[q][4] = 255

\* an output with a transparent pixel and with a pixel of the source
C9_Witness ==
    /\ pc = "warped"
    /\ projection.final.transform # IdentityMatrix
    /\ \E q \in DOMAIN squared.px :
          /\ squared.px[q] = <<0, 0, 0, 0>>
          /\ SourceOf(q).finite
    /\ \E q \in DOMAIN squared.px : squared.px[q][4] = 255

\* s is a cyclic rotation of h
IsRotationOf(s, h) ==
    /\ Len(s) = Len(h)
    /\ \E k \in 0..(Len(h) - 1) : \A i \in 1..Len(h) : s[i] = h[((i - 1 + k) % Len(h)) + 1]

\* the edges (h[i], h[i+1]) whose midpoint has the least y
TopEdges(h) ==
    {i \in 1..4 : \A j \in 1..4 : h[i].y + h[Succ4(i)].y <= h[j].y + h[Succ4(j)].y}

\* the endpoint of the edge i with the smaller x (either one when they are equal)
LeftEnds(h, i) ==
    IF h[i].x < h[Succ4(i)].x THEN {h[i]}
    ELSE IF h[Succ4(i)].x < h[i].x THEN {h[Succ4(i)]}
    ELSE {h[i], h[Succ4(i)]}

\* C10: after the ordering loop and rotate_left the hull is a cyclic rotation
\* of itself that starts at the endpoint with the smaller x of an edge whose
\* midpoint has the least y of the four, for every size of the decoded image.
C10_FirstPointRule ==
    pc = "ordered" =>
        LET h == HullOfInput(control_points)
        IN  /\ IsRotationOf(convex_hull, h)
            /\ \E i \in TopEdges(h) : convex_hull[1] \in LeftEnds(h, i)

\* the rotation is one, also where the first point is not the claimed one
C10_Witness ==
    /\ pc = "ordered"
    /\ ord.first_point # 0
    /\ IsRotationOf(convex_hull, HullOfInput(control_points))

UnwrapPanic == Panic("called Option::unwrap() on a None value")

\* C7: the stages run in their order, a stage that fails ends the invocation
\* with one returned error and nothing of a later stage, an invalid
\* quadrilateral is reported before anything is decoded or solved, and no
\* invocation ends in a panic.
C7_StagesAndErrors ==
    /\ pc # "panicked"
    /\ result.tag # "Panic"
    /\ (result.tag = "Err" => pc = "returned" /\ squared = <<>>)
    /\ (result = NonConvexError => image = NoImage /\ projection = <<>>)
    /\ (image # NoImage => Len(convex_hull) = 4)
    /\ (ord # NoOrd => image # NoImage)
    /\ (projection # <<>> => ord # NoOrd /\ cropped # NoImage)
    /\ (squared # <<>> => projection # <<>>)
    /\ (result.tag = "Ok" => squared # <<>>)

\* the solve of the state met a zero divisor or a singular matrix
Degenerate ==
    LET ar == projection.ar
    IN  \/ Same(ar, Denominator(ar, projection.scaled), Num(ar, 0))
        \/ ord.new_width = 0
        \/ ord.new_height = 0
        \/ ~scaled_control_points_to_projection(ar, projection.scaled).some

\* C8: a solve that meets a zero divisor or a singular matrix ends the
\* invocation with a returned error; no matrix with a non-finite entry goes on
\* to the warp, and the unwrap of the solver's result does not panic.
C8_DegenerateReported ==
    /\ result # UnwrapPanic
    /\ pc = "solved" =>
          /\ AllFinite(projection.ar, projection.matrix)
          /\ AllFinite(projection.ar, projection.final.transform)
          /\ AllFinite(projection.ar, projection.final.inverse)
    /\ (projection # <<>> /\ Degenerate) => (pc = "returned" /\ result.tag = "Err")

=============================================================================
